---- MODULE Spec2Model ----
(***************************************************************************)
(* A model of xml_orgrfc/__main__.py, the XMLRFC -> org-mode converter.    *)
(*                                                                         *)
(* Text whose whitespace or length matters is a sequence of one-character  *)
(* strings; an ElementTree element is a record [tag, attrib, children]     *)
(* with an optional field text (elt.text is None iff the field is absent); *)
(* attrib is a function from attribute names to values (a Python dict).    *)
(* An output fragment is [kind, text]: text is what the code appends to    *)
(* `lines`, kind names the append statement that produced it.             *)
(***************************************************************************)
EXTENDS Naturals, Integers, Sequences, FiniteSets, TLC

VARIABLES
    pc,          \* where the process is: idle, gather, attr, walk, joined, printed, exited, aborted
    inMain,      \* TRUE when the running conversion was started by main()
    calls,       \* number of convert_xml_to_markdown calls started in this process
    root,        \* the parsed tree of the running conversion (<<>> when none)
    lines,       \* top_level's local list `lines`
    did_author,  \* Globals.did_author
    keywords,    \* Globals.keywords (a Python set)
    sec_refs,    \* Globals.sec_refs (a Python dict)
    err,         \* the exception that ended the conversion ("" when none)
    stdout,      \* what main() has printed
    idx,         \* top_level's position in `for elt in root`
    failed,      \* TRUE once a conversion of this process has raised
    start        \* the globals as they were when the running conversion began

vars == <<pc, inMain, calls, root, lines, did_author, keywords, sec_refs, err, stdout, idx, failed, start>>

(***************************************************************************)
(* Bounds of the model.                                                    *)
(***************************************************************************)
MaxChildren == 2   \* children listed under front / middle / references
MaxRows == 2       \* rows of a table, over its three groups
MaxCols == 2       \* cells of a table row
MaxCalls == 2      \* conversions started in one process

(***************************************************************************)
(* Strings and dictionaries.                                               *)
(***************************************************************************)
WS == {" ", "\t", "\n"}

RECURSIVE lstrip(_)
lstrip(s) == IF s # <<>> /\ Head(s) \in WS THEN lstrip(Tail(s)) ELSE s

RECURSIVE rstrip(_)
rstrip(s) ==
    IF s # <<>> /\ s[Len(s)] \in WS THEN rstrip(SubSeq(s, 1, Len(s) - 1)) ELSE s

\* str.strip()
strip(s) == rstrip(lstrip(s))

\* c * n for a one-character string c
RECURSIVE Rep(_, _)
Rep(c, n) == IF n <= 0 THEN <<>> ELSE <<c>> \o Rep(c, n - 1)

EmptyDict == [k \in {} |-> 0]

\* d[k] = v
DictSet(d, k, v) == [x \in DOMAIN d \cup {k} |-> IF x = k THEN v ELSE d[x]]

\* dict.get(k, default)
Get(d, k, default) == IF k \in DOMAIN d THEN d[k] ELSE default

(***************************************************************************)
(* ElementTree.                                                            *)
(***************************************************************************)
Elt(tag, attrib, children) == [tag |-> tag, attrib |-> attrib, children |-> children]

EltT(tag, attrib, text, children) ==
    [tag |-> tag, attrib |-> attrib, text |-> text, children |-> children]

HasText(elt) == "text" \in DOMAIN elt

\* elt.find(tag) is not None
Has(elt, tag) == \E i \in 1..Len(elt.children) : elt.children[i].tag = tag

\* elt.find(tag): the first child with that tag
Find(elt, tag) ==
    LET i == CHOOSE i \in 1..Len(elt.children) :
                 /\ elt.children[i].tag = tag
                 /\ \A j \in 1..(i - 1) : elt.children[j].tag # tag
    IN elt.children[i]

\* elt.findall(".//tag"): every descendant with that tag, in document order
RECURSIVE FindAll(_, _)
RECURSIVE FindAllIn(_, _)
FindAllIn(children, tag) ==
    IF children = <<>> THEN <<>>
    ELSE LET c == Head(children)
         IN (IF c.tag = tag THEN <<c>> ELSE <<>>)
              \o FindAll(c, tag) \o FindAllIn(Tail(children), tag)
FindAll(elt, tag) == FindAllIn(elt.children, tag)

(***************************************************************************)
(* gather_section_refs.                                                    *)
(***************************************************************************)
\* lines 451-453: every section with a non-empty anchor gets count 0
RECURSIVE GatherSections(_, _)
GatherSections(secs, refs) ==
    IF secs = <<>> THEN refs
    ELSE LET anchor == Get(Head(secs).attrib, "anchor", <<>>)
         IN GatherSections(Tail(secs),
                           IF anchor # <<>> THEN DictSet(refs, anchor, 0) ELSE refs)

\* lines 455-458: every xref whose target is a key increments that key
RECURSIVE GatherXrefs(_, _)
GatherXrefs(xrefs, refs) ==
    IF xrefs = <<>> THEN refs
    ELSE LET target == Get(Head(xrefs).attrib, "target", <<>>)
         IN GatherXrefs(Tail(xrefs),
                        IF target # <<>> /\ target \in DOMAIN refs
                        THEN DictSet(refs, target, refs[target] + 1)
                        ELSE refs)

gather_section_refs(r, refs) ==
    GatherXrefs(FindAll(r, "xref"), GatherSections(FindAll(r, "section"), refs))

(***************************************************************************)
(* The state a conversion threads through its calls: the list `lines`, the *)
(* two front-matter globals, and the exception that is propagating (""     *)
(* when none).  Once an exception is raised nothing more is appended.      *)
(***************************************************************************)
St(ls, did, kw, e) == [lines |-> ls, did_author |-> did, keywords |-> kw, err |-> e]

Frag(kind, text) == [kind |-> kind, text |-> text]

\* lines.append(text)
Emit(st, kind, text) ==
    IF st.err # "" THEN st ELSE [st EXCEPT !.lines = Append(@, Frag(kind, text))]

\* an exception leaves the function
Raise(st, e) == IF st.err # "" THEN st ELSE [st EXCEPT !.err = e]

\* add_elt_attr(elt, attr, name, lines)
add_elt_attr(elt, attr, name, st) ==
    LET v == strip(Get(elt.attrib, attr, <<>>))
    IN IF v # <<>> THEN Emit(st, name, <<"#+", name, ": ">> \o v \o <<"\n">>) ELSE st

(***************************************************************************)
(* _cvt_table.                                                             *)
(***************************************************************************)
Min2(a, b) == IF a <= b THEN a ELSE b
Max2(a, b) == IF a >= b THEN a ELSE b

\* list(e) if e is not None else []
GroupRows(table, tag) == IF Has(table, tag) THEN Find(table, tag).children ELSE <<>>

\* line 141: [len(x.text.strip()) if x.text else 0 for x in elts]
RowWidths(row) ==
    [i \in 1..Len(row.children) |->
        LET x == row.children[i]
        IN IF HasText(x) /\ x.text # <<>> THEN Len(strip(x.text)) ELSE 0]

\* line 142: [max(x, y) for x, y in zip(widths, maxw)] if maxw else widths
RECURSIVE FoldMaxW(_, _)
FoldMaxW(rows, maxw) ==
    IF rows = <<>> THEN maxw
    ELSE LET widths == RowWidths(Head(rows))
         IN FoldMaxW(Tail(rows),
                     IF maxw # <<>>
                     THEN [i \in 1..Min2(Len(widths), Len(maxw)) |-> Max2(widths[i], maxw[i])]
                     ELSE widths)

\* lines 138-143
ColumnWidths(allrows) ==
    LET maxw == FoldMaxW(allrows, <<>>)
    IN [i \in 1..Len(maxw) |-> 2 + maxw[i]]

\* lines 146-154
RECURSIVE RuleBody(_, _)
RuleBody(maxw, first) ==
    IF maxw = <<>> THEN <<>>
    ELSE (IF first THEN <<>> ELSE <<"+">>) \o Rep("-", Head(maxw)) \o RuleBody(Tail(maxw), FALSE)

TableRule(maxw) == <<"|">> \o RuleBody(maxw, TRUE) \o <<"|", "\n">>

\* line 160: x.attrib.get("align"); None and "" are both falsy wherever the
\* value is used (lines 161, 162), so an absent attribute is read as "".
RowAligns(row) ==
    [i \in 1..Len(row.children) |-> Get(row.children[i].attrib, "align", <<>>)]

\* lines 157-161: aligns is None until a row has been seen
NoAligns == [none |-> TRUE, v |-> <<>>]

RECURSIVE FoldAligns(_, _)
FoldAligns(rows, aligns) ==
    IF rows = <<>> THEN aligns
    ELSE LET a == RowAligns(Head(rows))
         IN FoldAligns(Tail(rows),
                       IF ~aligns.none /\ aligns.v # <<>>
                       THEN [none |-> FALSE,
                             v |-> [i \in 1..Min2(Len(aligns.v), Len(a)) |->
                                       IF aligns.v[i] # <<>> THEN aligns.v[i] ELSE a[i]]]
                       ELSE [none |-> FALSE, v |-> a])

\* line 162: [x[0] if x else "l" for x in aligns]
AlignLetters(v) == [i \in 1..Len(v) |-> IF v[i] # <<>> THEN v[i][1] ELSE "l"]

\* the str.format padding of line 186: never truncates
Pad(s, width, align) ==
    LET pad == IF width > Len(s) THEN width - Len(s) ELSE 0
    IN CASE align = "r" -> Rep(" ", pad) \o s
         [] align = "c" -> Rep(" ", pad \div 2) \o s \o Rep(" ", pad - (pad \div 2))
         [] OTHER -> s \o Rep(" ", pad)

\* lines 170-186
get_row_text(width, align, etext) == <<"|">> \o Pad(<<" ">> \o etext \o <<" ">>, width, align)

\* lines 189-193: zip(maxw, aligns, list(row))
RowText(row, maxw, aligns) ==
    LET n == Min2(Min2(Len(maxw), Len(aligns)), Len(row.children))
        cell[i \in 0..n] ==
            IF i = 0 THEN <<>>
            ELSE LET elt == row.children[i]
                     etext == IF HasText(elt) THEN strip(elt.text) ELSE <<>>
                 IN cell[i - 1] \o get_row_text(maxw[i], aligns[i], etext)
    IN cell[n] \o <<"|", "\n">>

\* lines 197-201: zip(maxw, aligns)
AlignRowText(maxw, aligns) ==
    LET n == Min2(Len(maxw), Len(aligns))
        cell[i \in 0..n] ==
            IF i = 0 THEN <<>>
            ELSE cell[i - 1] \o get_row_text(maxw[i], aligns[i], <<"<", aligns[i], ">">>)
    IN cell[n] \o <<"|", "\n">>

RECURSIVE EmitRows(_, _, _, _)
EmitRows(rows, st, maxw, aligns) ==
    IF rows = <<>> THEN st
    ELSE EmitRows(Tail(rows), Emit(st, "row", RowText(Head(rows), maxw, aligns)), maxw, aligns)

\* line 195: the annotation row follows a group only while `aligned` is still False
AnnotateAlways(aligned) == TRUE
AnnotateGroup(aligned) == ~aligned

\* lines 166-204
RECURSIVE EmitGroups(_, _, _, _, _)
EmitGroups(groups, st, aligned, maxw, aligns) ==
    IF groups = <<>> THEN st
    ELSE LET rows == Head(groups)
         IN IF rows = <<>> THEN EmitGroups(Tail(groups), st, aligned, maxw, aligns)
            ELSE LET s1 == EmitRows(rows, st, maxw, aligns)
                     s2 == IF AnnotateGroup(aligned)
                           THEN Emit(s1, "align", AlignRowText(maxw, aligns))
                           ELSE s1
                     s3 == Emit(s2, "rule", TableRule(maxw))
                 IN EmitGroups(Tail(groups), s3, TRUE, maxw, aligns)

_cvt_table(table, st) ==
    LET s1 == IF Has(table, "name")
              THEN LET name == Find(table, "name")
                   IN IF HasText(name)
                      THEN Emit(st, "caption", <<"#+caption: ">> \o strip(name.text) \o <<"\n">>)
                      ELSE Raise(st, "AttributeError")
              ELSE st
        s2 == add_elt_attr(table, "anchor", "name", s1)
        hrows == GroupRows(table, "thead")
        brows == GroupRows(table, "tbody")
        frows == GroupRows(table, "tfoot")
        allrows == hrows \o brows \o frows
        maxw == ColumnWidths(allrows)
        al == FoldAligns(allrows, NoAligns)
    IN IF al.none THEN Raise(s2, "TypeError")   \* line 162 iterates None
       ELSE EmitGroups(<<hrows, brows, frows>>,
                       Emit(s2, "rule", TableRule(maxw)),
                       FALSE, maxw, AlignLetters(al.v))

(***************************************************************************)
(* _cvt_reference and _cvt_front_ref.                                      *)
(***************************************************************************)
\* e.text.strip() raises AttributeError when e.text is None
_cvt_front_ref(front, st) ==
    LET s1 == IF Has(front, "title")
              THEN LET e == Find(front, "title")
                   IN IF HasText(e)
                      THEN Emit(st, "REF_TITLE", <<":REF_TITLE: ">> \o strip(e.text) \o <<"\n">>)
                      ELSE Raise(st, "AttributeError")
              ELSE st
    IN IF Has(front, "author")
       THEN LET author == Find(front, "author")
            IN IF Has(author, "organization") /\ HasText(Find(author, "organization"))
               THEN Emit(s1, "REF_ORG",
                         <<":REF_ORG: ">> \o strip(Find(author, "organization").text) \o <<"\n">>)
               ELSE Raise(s1, "AttributeError")   \* line 91: org is None, or org.text is
       ELSE s1

\* An href is kept as <<prefix, name, suffix>>; lines 96 and 101 match
\* ".*reference\.RFC\.([0-9]+)\.xml" and ".*reference\.I-D.([-a-z0-9]+)\.xml".
_cvt_reference(child, st) ==
    LET href == Get(child.attrib, "href", <<>>)
        isInclude == child.tag = "xi:include" /\ "href" \in DOMAIN child.attrib
    IN IF isInclude /\ Len(href) = 3 /\ href[1] = "reference.RFC." /\ href[3] = ".xml"
       THEN Emit(st, "ref_rfc", <<"** RFC", href[2], "\n">>)
       ELSE IF isInclude /\ Len(href) = 3 /\ href[1] = "reference.I-D." /\ href[3] = ".xml"
       THEN Emit(st, "ref_id", <<"** I-D.", href[2], "\n">>)
       ELSE IF child.tag = "reference"
       THEN IF "anchor" \notin DOMAIN child.attrib
            THEN Raise(st, "AssertionError")
            ELSE LET s1 == Emit(st, "ref_heading",
                                <<"** ">> \o child.attrib["anchor"] \o <<"\n">>)
                     s2 == Emit(s1, "PROPERTIES", <<":PROPERTIES:\n">>)
                     s3 == IF "target" \in DOMAIN child.attrib
                           THEN Emit(s2, "REF_TARGET",
                                     <<":REF_TARGET: ">> \o strip(child.attrib["target"]) \o <<"\n">>)
                           ELSE s2
                     s4 == IF Has(child, "front")
                           THEN _cvt_front_ref(Find(child, "front"), s3)
                           ELSE s3
                 IN Emit(s4, "END", <<":END:\n">>)
       ELSE st

(***************************************************************************)
(* _cvt_mid_back.  The trees of this model hold no dl, ol or ul element,   *)
(* so those branches (lines 297-333) are not modelled.                     *)
(***************************************************************************)
\* _unindent: re.sub("\n[ \t]+", " ", text)
RECURSIVE SkipBlanks(_)
SkipBlanks(s) == IF s # <<>> /\ Head(s) \in {" ", "\t"} THEN SkipBlanks(Tail(s)) ELSE s

RECURSIVE _unindent(_)
_unindent(s) ==
    IF s = <<>> THEN <<>>
    ELSE IF Head(s) = "\n" /\ Len(s) >= 2 /\ s[2] \in {" ", "\t"}
    THEN <<" ">> \o _unindent(SkipBlanks(Tail(s)))
    ELSE <<Head(s)>> \o _unindent(Tail(s))

\* "".join(lines)
RECURSIVE Join(_)
Join(ls) == IF ls = <<>> THEN <<>> ELSE Head(ls).text \o Join(Tail(ls))

\* _fill: the paragraphs of this model are one short line of single-spaced
\* words, which textwrap.fill and the substitution of line 41 return as is.
_fill(text) == text

\* lines 276-280
EndParagraph(ptext) ==
    LET n == Len(ptext)
    IN IF n >= 2 /\ ptext[n] = "\n" /\ ptext[n - 1] = "\n" THEN ptext
       ELSE IF n >= 1 /\ ptext[n] = "\n" THEN ptext \o <<"\n">>
       ELSE ptext \o <<"\n", "\n">>

\* the heading of lines 244-245 and 263-264
HeaderPrefix(level) == Rep("*", level + 1)

\* line 248: the section's anchor is looked up stripped
SectionAnchor(elt) == strip(Get(elt.attrib, "anchor", <<>>))

\* line 248's test: anchor and glb.sec_refs[anchor] > 0
NeedsCustomId(anchor, refs) == anchor # <<>> /\ refs[anchor] > 0

RECURSIVE _cvt_mid_back(_, _, _, _, _)
RECURSIVE CvtChildren(_, _, _, _, _, _)
RECURSIVE CvtTextChildren(_, _, _, _, _)
RECURSIVE CvtReferences(_, _)

\* the loops of lines 255-257, 290-291 and 347-348; skip is the tag left out
CvtChildren(children, st, mid, level, refs, skip) ==
    IF children = <<>> \/ st.err # "" THEN st
    ELSE CvtChildren(Tail(children),
                     IF Head(children).tag = skip THEN st
                     ELSE _cvt_mid_back(Head(children), st, mid, level, refs),
                     mid, level, refs, skip)

\* lines 266-269
CvtReferences(children, st) ==
    IF children = <<>> \/ st.err # "" THEN st
    ELSE CvtReferences(Tail(children),
                       IF Head(children).tag = "name" THEN st
                       ELSE _cvt_reference(Head(children), st))

\* the loop of _cvt_mid_back_text_elt (lines 211-215) over tlines
CvtTextChildren(children, st, mid, level, refs) ==
    IF children = <<>> \/ st.err # "" THEN st
    ELSE LET child == Head(children)
             s1 == _cvt_mid_back(child, st, mid, level, refs)
             n == Len(s1.lines)
             s2 == IF s1.err = "" /\ "tail" \in DOMAIN child /\ child.tail # <<>>
                   THEN [s1 EXCEPT !.lines[n].text = @ \o _unindent(child.tail)]
                   ELSE s1
         IN CvtTextChildren(Tail(children), s2, mid, level, refs)

_cvt_mid_back(elt, st, mid, level, refs) ==
    IF st.err # "" THEN st
    ELSE IF elt.tag = "section" THEN
        LET t0 == IF "title" \in DOMAIN elt.attrib THEN strip(elt.attrib["title"]) ELSE <<>>
            noText == t0 = <<>> /\ Has(elt, "name") /\ ~HasText(Find(elt, "name"))
            title == IF t0 = <<>> /\ Has(elt, "name") /\ ~noText
                     THEN strip(Find(elt, "name").text) ELSE t0
            anchor == SectionAnchor(elt)
            s1 == IF noText THEN Raise(st, "AttributeError")
                  ELSE IF title = <<>> THEN st
                  ELSE LET h == Emit(st, "heading",
                                     <<"\n">> \o HeaderPrefix(level) \o <<" ">> \o title \o <<"\n">>)
                       IN IF anchor # <<>> /\ anchor \notin DOMAIN refs
                          THEN Raise(h, "KeyError")
                          ELSE IF NeedsCustomId(anchor, refs)
                          THEN Emit(Emit(Emit(h, "PROPERTIES", <<":PROPERTIES:\n">>),
                                         "CUSTOM_ID", <<":CUSTOM_ID: ">> \o anchor \o <<"\n">>),
                                    "END", <<":END:\n">>)
                          ELSE h
        IN CvtChildren(elt.children, Emit(s1, "blank", <<"\n">>), mid, level + 1, refs, "title")
    ELSE IF elt.tag = "references" THEN
        IF mid THEN Raise(st, "AssertionError")
        ELSE LET s1 == IF Has(elt, "name")
                       THEN IF HasText(Find(elt, "name"))
                            THEN Emit(st, "heading",
                                      <<"\n">> \o HeaderPrefix(level) \o <<" ">>
                                        \o strip(Find(elt, "name").text) \o <<"\n", "\n">>)
                            ELSE Raise(st, "AttributeError")
                       ELSE st
             IN CvtReferences(elt.children, s1)
    ELSE IF elt.tag = "t" THEN
        IF ~HasText(elt) THEN Raise(st, "TypeError")   \* _unindent(None)
        ELSE LET ptext == lstrip(_unindent(elt.text))
                 tl == CvtTextChildren(elt.children,
                                       St(<<Frag("text", ptext)>>, st.did_author, st.keywords, ""),
                                       mid, level, refs)
             IN IF tl.err # "" THEN Raise(st, tl.err)
                ELSE Emit(st, "t", EndParagraph(_fill(Join(tl.lines))))
    ELSE IF elt.tag = "xref" THEN
        IF "target" \notin DOMAIN elt.attrib THEN Raise(st, "KeyError")
        ELSE IF elt.attrib["target"] = <<>> THEN Raise(st, "AssertionError")
        ELSE LET target == elt.attrib["target"]
                 s1 == IF target \in DOMAIN refs
                       THEN Emit(st, "xref", <<"[[#">> \o target \o <<"]]">>)
                       ELSE Emit(st, "xref", <<"[[">> \o target \o <<"]]">>)
             IN CvtChildren(elt.children, s1, mid, level, refs, "")
    ELSE IF elt.tag = "table" THEN _cvt_table(elt, st)
    ELSE IF elt.tag = "figure" THEN
        LET nameBad == Has(elt, "name") /\ ~HasText(Find(elt, "name"))
            name == IF Has(elt, "name") /\ ~nameBad THEN strip(Find(elt, "name").text) ELSE <<>>
        IN IF nameBad \/ ~Has(elt, "artwork") THEN Raise(st, "AttributeError")
           ELSE LET artwork == Find(elt, "artwork")
                    s1 == IF name # <<>>
                          THEN Emit(st, "caption", <<"#+caption: ">> \o name \o <<"\n">>)
                          ELSE st
                    s2 == add_elt_attr(elt, "anchor", "name", s1)
                IN Emit(s2, "src",
                        <<"#+begin_src\n">>
                          \o (IF HasText(artwork) THEN artwork.text ELSE <<"None">>)
                          \o <<"\n#+end_src\n">>)
    ELSE CvtChildren(elt.children, st, mid, level + 1, refs, "")

(***************************************************************************)
(* convert_xml_front.                                                      *)
(***************************************************************************)
\* str(None), as the f-string of line 381 renders a missing fullname
NoneStr == <<"N", "o", "n", "e">>

\* keywords.add(x)
KeywordsReplace(kw, x) == {x}
KeywordsAdd(kw, x) == kw \cup {x}

\* lines 360-391
ConvertAuthor(elt, st) ==
    LET hasName == "fullname" \in DOMAIN elt.attrib
        fname == Get(elt.attrib, "fullname", NoneStr)
        addr == IF Has(elt, "address") THEN Find(elt, "address") ELSE Elt("address", EmptyDict, <<>>)
        hasEmail == Has(addr, "email")
        hasOrg == Has(elt, "organization")
        bad == \/ hasEmail /\ ~HasText(Find(addr, "email"))
               \/ hasOrg /\ ~HasText(Find(elt, "organization"))
        email == IF hasEmail /\ ~bad THEN strip(Find(addr, "email").text) ELSE <<>>
        org == IF hasOrg /\ ~bad THEN strip(Find(elt, "organization").text) ELSE <<>>
        org_abbrev == IF hasOrg
                      THEN strip(Get(Find(elt, "organization").attrib, "abbrev", <<>>))
                      ELSE <<>>
    IN IF bad THEN Raise(st, "AttributeError")
       ELSE IF st.did_author
       THEN \* lines 377-382; the quotes and brackets around the values are kept as
            \* one piece of text between two values
            LET o == IF org_abbrev # <<>>
                     THEN <<"\" (\"">> \o org_abbrev \o <<"\" \"">> \o org \o <<"\"))\n">>
                     ELSE <<"\" \"">> \o org \o <<"\")\n">>
            IN Emit(st, "RFC_ADD_AUTHOR",
                    <<"#+RFC_ADD_AUTHOR: (\"">> \o fname \o <<"\" \"">> \o email \o o)
       ELSE IF ~hasName
       THEN [Raise(st, "TypeError") EXCEPT !.did_author = TRUE]   \* line 385: f"{None:s}"
       ELSE LET s0 == [st EXCEPT !.did_author = TRUE]
                s1 == Emit(s0, "AUTHOR", <<"#+AUTHOR: ">> \o fname \o <<"\n">>)
                s2 == IF email # <<>>
                      THEN Emit(s1, "EMAIL", <<"#+EMAIL: ">> \o email \o <<"\n">>) ELSE s1
                s3 == IF org # <<>>
                      THEN Emit(s2, "AFFILIATION", <<"#+AFFILIATION: ">> \o org \o <<"\n">>)
                      ELSE s2
            IN IF org_abbrev # <<>>
               THEN Emit(s3, "RFC_SHORT_ORG", <<"#+RFC_SHORT_ORG: ">> \o org_abbrev \o <<"\n">>)
               ELSE s3

\* a directive made of the element's stripped text (lines 358, 398, 400)
TextDirective(elt, st, name) ==
    IF HasText(elt)
    THEN Emit(st, name, <<"#+", name, ": ">> \o strip(elt.text) \o <<"\n">>)
    ELSE Raise(st, "AttributeError")

RECURSIVE convert_xml_front(_, _, _, _)
RECURSIVE ConvertFrontChildren(_, _, _, _)

ConvertFrontChildren(children, st, level, refs) ==
    IF children = <<>> \/ st.err # "" THEN st
    ELSE ConvertFrontChildren(Tail(children),
                              convert_xml_front(Head(children), st, level, refs),
                              level, refs)

convert_xml_front(elt, st, level, refs) ==
    IF st.err # "" THEN st
    ELSE IF elt.tag = "title"
    THEN add_elt_attr(elt, "abbrev", "RFC_SHORT_TITLE", TextDirective(elt, st, "TITLE"))
    ELSE IF elt.tag = "author" THEN ConvertAuthor(elt, st)
    ELSE IF elt.tag = "abstract"
    THEN LET s1 == Emit(st, "begin_abstract", <<"\n#+begin_abstract\n">>)
             s2 == CvtChildren(elt.children, s1, TRUE, level + 1, refs, "")
         IN Emit(s2, "end_abstract", <<"#+end_abstract\n">>)
    ELSE IF elt.tag = "area" THEN TextDirective(elt, st, "RFC_AREA")
    ELSE IF elt.tag = "workgroup" THEN TextDirective(elt, st, "RFC_WORKGROUP")
    ELSE IF elt.tag = "keyword"
    THEN IF HasText(elt)
         THEN [st EXCEPT !.keywords = KeywordsAdd(@, strip(elt.text))]
         ELSE Raise(st, "AttributeError")
    ELSE ConvertFrontChildren(elt.children, st, level + 1, refs)

(***************************************************************************)
(* _cvt_rfc_attr.  The rfc elements of this model carry at most one        *)
(* attribute, so the order of elt.attrib.items() does not matter.          *)
(***************************************************************************)
Digits == {"0", "1", "2", "3", "4", "5", "6", "7", "8", "9"}
Lower == {"a", "b", "c", "d", "e", "f", "g", "h", "i", "j", "k", "l", "m",
          "n", "o", "p", "q", "r", "s", "t", "u", "v", "w", "x", "y", "z"}

\* re.match(r"([-a-z0-9]+)-([0-9][0-9])", v): the lengths the first group can take
DocNameSplits(v) ==
    {i \in 1..(Len(v) - 3) :
        /\ \A j \in 1..i : v[j] \in Lower \cup Digits \cup {"-"}
        /\ v[i + 1] = "-"
        /\ v[i + 2] \in Digits
        /\ v[i + 3] \in Digits}

rfc_attr_map ==
    [category |-> "RFC_CATEGORY", consensus |-> "RFC_CONSENSUS", docName |-> "RFC_NAME",
     ipr |-> "RFC_IPR", obsoletes |-> "RFC_OBSOLETES", submissionType |-> "RFC_STREAM",
     tocDepth |-> "RFC_TOC_DEPTH", updates |-> "RFC_UPDATES", version |-> "RFC_XML_VERSION"]

CvtRfcAttrOne(k, v, st) ==
    IF k = "docName"
    THEN IF DocNameSplits(v) = {} THEN Raise(st, "AssertionError")
         ELSE LET i == CHOOSE i \in DocNameSplits(v) : \A j \in DocNameSplits(v) : j <= i
              IN Emit(Emit(st, "RFC_NAME", <<"#+RFC_NAME: ">> \o SubSeq(v, 1, i) \o <<"\n">>),
                      "RFC_VERSION", <<"#+RFC_VERSION: ">> \o SubSeq(v, i + 2, i + 3) \o <<"\n">>)
    ELSE IF k \in DOMAIN rfc_attr_map
    THEN IF k \in {"obsoletes", "updates"} /\ v = <<>> THEN st
         ELSE Emit(st, rfc_attr_map[k], <<"#+", rfc_attr_map[k], ": ">> \o v \o <<"\n">>)
    ELSE st   \* logging.warning only

RECURSIVE CvtRfcAttrs(_, _, _)
CvtRfcAttrs(keys, attrib, st) ==
    IF keys = {} \/ st.err # "" THEN st
    ELSE LET k == CHOOSE k \in keys : TRUE
         IN CvtRfcAttrs(keys \ {k}, attrib, CvtRfcAttrOne(k, attrib[k], st))

_cvt_rfc_attr(elt, st) == Emit(CvtRfcAttrs(DOMAIN elt.attrib, elt.attrib, st), "blank", <<"\n">>)

(***************************************************************************)
(* The documents the model converts.                                       *)
(***************************************************************************)
SeqsUpTo(S, n) == UNION {[1..k -> S] : k \in 0..n}

Rfc(attrib, front, middle, back) ==
    Elt("rfc", attrib, <<Elt("front", EmptyDict, front),
                         Elt("middle", EmptyDict, middle),
                         Elt("back", EmptyDict, back)>>)

\* front matter: authors and keywords
AuthorFull ==
    Elt("author", [fullname |-> <<"A">>],
        <<Elt("address", EmptyDict, <<EltT("email", EmptyDict, <<"e">>, <<>>)>>),
          EltT("organization", [abbrev |-> <<"o">>], <<"O">>, <<>>)>>)
AuthorPlain == Elt("author", [fullname |-> <<"B">>], <<>>)
AuthorNoName == Elt("author", EmptyDict, <<EltT("organization", EmptyDict, <<"O">>, <<>>)>>)
Keyword(text) == EltT("keyword", EmptyDict, text, <<>>)

FrontChildren ==
    {AuthorFull, AuthorPlain, AuthorNoName,
     Keyword(<<"k">>), Keyword(<<" ", "k">>), Keyword(<<"j">>)}

FrontDocs == {Rfc(EmptyDict, f, <<>>, <<>>) : f \in SeqsUpTo(FrontChildren, MaxChildren)}

\* body: sections, paragraphs with a cross-reference, figures, a table
Anchors == {<<"a">>, <<" ", "a">>}
Xref(attrib) == [tag |-> "xref", attrib |-> attrib, children |-> <<>>, tail |-> <<".">>]
Para(x) == EltT("t", EmptyDict, <<"x", " ">>, <<x>>)
Section(attrib, children) == Elt("section", attrib, children)
Td(attrib, text) == EltT("td", attrib, text, <<>>)
Tr(cells) == Elt("tr", EmptyDict, cells)
SmallTable == Elt("table", EmptyDict, <<Elt("tbody", EmptyDict, <<Tr(<<Td(EmptyDict, <<"a">>)>>)>>)>>)

MiddleChildren ==
    {Section([title |-> <<"T">>, anchor |-> a], <<>>) : a \in Anchors}
    \cup {Section([title |-> <<"T">>], <<>>),
          Section([anchor |-> <<"a">>], <<EltT("name", EmptyDict, <<"N">>, <<>>)>>),
          Section([title |-> <<"T">>, anchor |-> <<"a">>], <<Para(Xref([target |-> <<"a">>]))>>)}
    \cup {Para(Xref([target |-> t])) : t \in {<<"a">>, <<"b">>}}

\* nodes on which the conversion is fatal
FatalChildren ==
    {Para(Xref([target |-> <<>>])),
     Para(Xref(EmptyDict)),
     Elt("figure", EmptyDict, <<>>),
     Elt("references", EmptyDict, <<>>)}

MiddleDocs ==
    {Rfc(EmptyDict, <<>>, m, <<>>) : m \in SeqsUpTo(MiddleChildren, MaxChildren)}
    \cup {Rfc(EmptyDict, <<>>, <<Section([title |-> <<"T">>], <<>>), x>>, <<>>) : x \in FatalChildren}
    \cup {Rfc(EmptyDict, <<>>, <<x>>, <<>>) :
            x \in {Section([anchor |-> <<"a">>], <<>>),
                   Elt("figure", [anchor |-> <<"f">>],
                       <<EltT("name", EmptyDict, <<"F">>, <<>>),
                         EltT("artwork", EmptyDict, <<"f">>, <<>>)>>),
                   SmallTable}}

\* back matter: one references element holding reference entries
RefFront(children) == Elt("front", EmptyDict, children)
RefTitle == EltT("title", EmptyDict, <<"t">>, <<>>)
RefAuthorOrg == Elt("author", EmptyDict, <<EltT("organization", EmptyDict, <<"O">>, <<>>)>>)
RefAuthorNoOrg == Elt("author", EmptyDict, <<>>)

ReferenceChildren ==
    {Elt("reference", EmptyDict, <<>>),
     Elt("reference", [anchor |-> <<"X">>, target |-> <<"u">>], <<>>)}
    \cup {Elt("reference", [anchor |-> <<"X">>], <<RefFront(f)>>) :
            f \in {<<>>, <<RefTitle>>, <<RefAuthorOrg>>, <<RefAuthorNoOrg>>,
                   <<RefTitle, RefAuthorOrg>>}}

References(children) ==
    Elt("references", EmptyDict, <<EltT("name", EmptyDict, <<"R">>, <<>>)>> \o children)

BackDocs ==
    {Rfc(EmptyDict, <<>>, <<>>, <<References(r)>>) : r \in SeqsUpTo(ReferenceChildren, MaxChildren)}
    \cup {Rfc(EmptyDict, <<>>, <<>>, <<References(<<x>>)>>) :
            x \in {Elt("xi:include", [href |-> <<"reference.RFC.", "2119", ".xml">>], <<>>),
                   Elt("xi:include", [href |-> <<"reference.I-D.", "x-y", ".xml">>], <<>>)}}

\* the rfc element itself
RootDocs ==
    {Rfc([docName |-> <<"d", "-", "x", "-", "0", "1">>], <<>>, <<Section([title |-> <<"T">>], <<>>)>>, <<>>),
     Rfc([docName |-> <<"d">>], <<>>, <<>>, <<>>),
     Rfc([category |-> <<"s", "t", "d">>], <<>>, <<>>, <<>>),
     Rfc([symRefs |-> <<"y">>], <<>>, <<>>, <<>>),
     Elt("rfc", EmptyDict, <<Elt("note", EmptyDict, <<>>)>>),
     Elt("html", EmptyDict, <<>>)}

Docs == FrontDocs \cup MiddleDocs \cup BackDocs \cup RootDocs

\* tables: up to MaxRows rows of up to MaxCols cells, split over head, body and foot
Cells == {Td(EmptyDict, <<"a">>), Td([align |-> <<"r", "i", "g", "h", "t">>], <<" ", "b", "c", "d">>)}
Rows == {Tr(c) : c \in SeqsUpTo(Cells, MaxCols)}

Group(tag, rows) == IF rows = <<>> THEN <<>> ELSE <<Elt(tag, EmptyDict, rows)>>

Tables ==
    {Elt("table", EmptyDict,
         Group("thead", SubSeq(rs, 1, i)) \o Group("tbody", SubSeq(rs, i + 1, j))
           \o Group("tfoot", SubSeq(rs, j + 1, Len(rs)))) :
        <<rs, i, j>> \in {x \in SeqsUpTo(Rows, MaxRows) \X (0..MaxRows) \X (0..MaxRows) :
                            x[2] <= x[3] /\ x[3] <= Len(x[1])}}
    \cup {Elt("table", [anchor |-> <<"t">>], <<EltT("name", EmptyDict, <<"C">>, <<>>)>>),
          Elt("table", [anchor |-> <<"t">>],
              <<EltT("name", EmptyDict, <<"C">>, <<>>), Elt("tbody", EmptyDict, <<>>)>>),
          Elt("table", EmptyDict, <<Elt("tbody", EmptyDict, <<Tr(<<EltT("td", EmptyDict, <<>>, <<>>), Elt("td", EmptyDict, <<>>)>>)>>)>>)}

TableDocs == {Elt("rfc", EmptyDict, <<Elt("middle", EmptyDict, <<t>>)>>) : t \in Tables}

(***************************************************************************)
(* main, convert_xml_to_markdown and top_level, one step per statement.    *)
(***************************************************************************)
Preamble == <<"# Do: ...\n# Do: ...\n# Don't: ...\n#+OPTIONS: ...\n", "\n">>

\* lines 478-491: what main has printed when it calls convert_xml_to_markdown
PrintedEarly == Preamble
PrintedBeforeConvert == <<>>

Globals == [did_author |-> did_author, keywords |-> keywords, sec_refs |-> sec_refs]

Begin(D, main) ==
    /\ pc = "idle"
    /\ calls < MaxCalls
    /\ \E d \in D : root' = d
    /\ pc' = "gather"
    /\ inMain' = main
    /\ calls' = calls + 1
    /\ lines' = <<>>
    /\ err' = ""
    /\ idx' = 0
    /\ start' = Globals
    /\ UNCHANGED <<did_author, keywords, sec_refs, failed>>

\* main() of a fresh process, up to the call of line 492
MainStart(D) ==
    /\ calls = 0
    /\ Begin(D, TRUE)
    /\ stdout' = stdout \o PrintedBeforeConvert

\* a caller that imported the module calls convert_xml_to_markdown
ConvertStart(D) == Begin(D, FALSE) /\ UNCHANGED stdout

\* line 468
GatherSectionRefs ==
    /\ pc = "gather"
    /\ sec_refs' = gather_section_refs(root, sec_refs)
    /\ pc' = "attr"
    /\ UNCHANGED <<inMain, calls, root, lines, did_author, keywords, err, stdout, idx, failed, start>>

Cur == St(lines, did_author, keywords, "")

\* the state after a step of top_level: an exception ends the conversion
Finish(st, i) ==
    /\ lines' = st.lines
    /\ did_author' = st.did_author
    /\ keywords' = st.keywords
    /\ err' = st.err
    /\ pc' = IF st.err # "" THEN "aborted" ELSE "walk"
    /\ idx' = IF st.err # "" THEN idx ELSE i
    /\ failed' = (failed \/ st.err # "")
    /\ UNCHANGED <<inMain, calls, root, sec_refs, stdout, start>>

\* lines 420-423
TopLevelStart ==
    /\ pc = "attr"
    /\ IF root.tag = "rfc"
       THEN Finish(_cvt_rfc_attr(root, Cur), 1)
       ELSE Finish(Cur, Len(root.children) + 1)

AtChild(tag) ==
    /\ pc = "walk"
    /\ idx <= Len(root.children)
    /\ root.children[idx].tag = tag

\* the orders in which a Python set can be iterated
Orders(S) == {o \in [1..Cardinality(S) -> S] : \A i, j \in DOMAIN o : i # j => o[i] # o[j]}

\* " ".join(reversed(keylist)) between the quotes of line 432
RECURSIVE JoinQuoted(_)
JoinQuoted(o) ==
    IF Len(o) = 1 THEN o[1]
    ELSE o[Len(o)] \o <<"\" \"">> \o JoinQuoted(SubSeq(o, 1, Len(o) - 1))

\* lines 430-432
EmitKeywords(st, o) ==
    IF o = <<>> THEN st
    ELSE Emit(st, "RFC_KEYWORDS", <<"#+RFC_KEYWORDS: (\"">> \o JoinQuoted(o) \o <<"\")\n">>)

\* lines 426-432
ConvertFront ==
    /\ AtChild("front")
    /\ LET st == ConvertFrontChildren(root.children[idx].children, Cur, 0, sec_refs)
       IN \E o \in Orders(st.keywords) : Finish(EmitKeywords(st, o), idx + 1)

\* lines 433-436
ConvertMiddle ==
    /\ AtChild("middle")
    /\ Finish(CvtChildren(root.children[idx].children, Cur, TRUE, 0, sec_refs, ""), idx + 1)

\* lines 437-440
ConvertBack ==
    /\ AtChild("back")
    /\ Finish(CvtChildren(root.children[idx].children, Cur, FALSE, 0, sec_refs, ""), idx + 1)

\* lines 441-442
IgnoreChild ==
    /\ pc = "walk"
    /\ idx <= Len(root.children)
    /\ root.children[idx].tag \notin {"front", "middle", "back"}
    /\ Finish(Cur, idx + 1)

\* lines 446 and 473: top_level returns and the fragments are joined
ReturnJoined ==
    /\ pc = "walk"
    /\ idx > Len(root.children)
    /\ pc' = "joined"
    /\ UNCHANGED <<inMain, calls, root, lines, did_author, keywords, sec_refs, err, stdout, idx, failed, start>>

\* lines 494-500
PrintPreamble ==
    /\ pc = "joined"
    /\ inMain
    /\ stdout' = stdout \o Preamble
    /\ pc' = "printed"
    /\ UNCHANGED <<inMain, calls, root, lines, did_author, keywords, sec_refs, err, idx, failed, start>>

\* line 501
PrintOutput ==
    /\ pc = "printed"
    /\ stdout' = stdout \o Join(lines) \o <<"\n">>
    /\ pc' = "exited"
    /\ UNCHANGED <<inMain, calls, root, lines, did_author, keywords, sec_refs, err, idx, failed, start>>

\* the importing caller takes the returned string, or catches the exception
BackToCaller ==
    /\ pc \in {"joined", "aborted"}
    /\ ~inMain
    /\ pc' = "idle"
    /\ root' = <<>>
    /\ lines' = <<>>
    /\ err' = ""
    /\ idx' = 0
    /\ UNCHANGED <<inMain, calls, did_author, keywords, sec_refs, stdout, failed, start>>

Init ==
    /\ pc = "idle"
    /\ inMain = FALSE
    /\ calls = 0
    /\ root = <<>>
    /\ lines = <<>>
    /\ did_author = FALSE
    /\ keywords = {}
    /\ sec_refs = EmptyDict
    /\ err = ""
    /\ stdout = <<>>
    /\ idx = 0
    /\ failed = FALSE
    /\ start = [did_author |-> FALSE, keywords |-> {}, sec_refs |-> EmptyDict]

Next ==
    \/ MainStart(Docs)
    \/ ConvertStart(Docs)
    \/ GatherSectionRefs
    \/ TopLevelStart
    \/ ConvertFront
    \/ ConvertMiddle
    \/ ConvertBack
    \/ IgnoreChild
    \/ ReturnJoined
    \/ PrintPreamble
    \/ PrintOutput
    \/ BackToCaller

Spec == Init /\ [][Next]_vars

\* main() on a document whose body is one table
NextTable ==
    \/ MainStart(TableDocs)
    \/ GatherSectionRefs
    \/ TopLevelStart
    \/ ConvertMiddle
    \/ ReturnJoined
    \/ PrintPreamble
    \/ PrintOutput

SpecTable == Init /\ [][NextTable]_vars

(***************************************************************************)
(* Reading the state: which part of the tree has been converted, and what  *)
(* a fragment carries.                                                     *)
(***************************************************************************)
\* the i-th child of the root has been converted, or converting it raised
Done(i) ==
    /\ pc # "idle"
    /\ \/ pc = "aborted" /\ idx = i
       \/ pc \in {"walk", "joined", "printed", "exited"} /\ idx > i

\* the i-th child of a root that is an rfc element with that many children
Part(i, tag) ==
    /\ pc # "idle"
    /\ root.tag = "rfc"
    /\ Len(root.children) >= i
    /\ root.children[i].tag = tag

Kinds(ls) == [i \in 1..Len(ls) |-> ls[i].kind]

RECURSIVE SelectKinds(_, _)
SelectKinds(ls, K) ==
    IF ls = <<>> THEN <<>>
    ELSE (IF Head(ls).kind \in K THEN <<Head(ls)>> ELSE <<>>) \o SelectKinds(Tail(ls), K)

RECURSIVE SelectTag(_, _)
SelectTag(children, tag) ==
    IF children = <<>> THEN <<>>
    ELSE (IF Head(children).tag = tag THEN <<Head(children)>> ELSE <<>>)
           \o SelectTag(Tail(children), tag)

\* the values of a directive: the runs of characters between its pieces of
\* fixed text (which are the entries longer than one character)
RECURSIVE FieldsFrom(_, _)
FieldsFrom(text, cur) ==
    IF text = <<>> THEN <<>>
    ELSE IF Len(Head(text)) > 1
    THEN <<cur>> \o FieldsFrom(Tail(text), <<>>)
    ELSE FieldsFrom(Tail(text), Append(cur, Head(text)))

Fields(text) == Tail(FieldsFrom(text, <<>>))

Reverse(s) == [i \in 1..Len(s) |-> s[Len(s) + 1 - i]]

Range(s) == {s[i] : i \in DOMAIN s}

(***************************************************************************)
(* The table renderer (checked under SpecTable, whose documents are an rfc *)
(* element holding a middle element holding one table).                    *)
(***************************************************************************)
TheTable == root.children[1].children[1]

TableConverted == Part(1, "middle") /\ Done(1) /\ TheTable.tag = "table"

RowCount(tag) == Len(GroupRows(TheTable, tag))

TableLines == SelectKinds(lines, {"rule", "row", "align"})

\* C1: every line emitted for a table (each rule line, each data row and the
\* alignment-annotation row) has the same number of characters.
C1_WidthConsistent ==
    \A i, j \in DOMAIN TableLines : Len(TableLines[i].text) = Len(TableLines[j].text)

\* C3: a table without any row is converted without error into its caption
\* line(s) followed by two rule lines, and no data or annotation row.
C3_EmptyTableConverted ==
    (TableConverted /\ RowCount("thead") + RowCount("tbody") + RowCount("tfoot") = 0)
        => /\ err = ""
           /\ Kinds(Tail(lines)) =
                (IF Has(TheTable, "name") THEN <<"caption">> ELSE <<>>)
                  \o (IF strip(Get(TheTable.attrib, "anchor", <<>>)) # <<>> THEN <<"name">> ELSE <<>>)
                  \o <<"rule", "rule">>

\* the lines of one row group: its rows, the annotation row if it is the
\* first non-empty group, and the closing rule
ExpectedGroup(n, first) ==
    IF n = 0 THEN <<>>
    ELSE [i \in 1..n |-> "row"] \o (IF first THEN <<"align">> ELSE <<>>) \o <<"rule">>

\* C9: for a table with at least one row, a rule line comes first, then for
\* every non-empty group (head, body, foot) its data rows and a closing rule
\* line; the alignment-annotation row is emitted exactly once, between the last
\* data row and the closing rule of the first non-empty group.
C9_AlignRowOnce ==
    (TableConverted /\ RowCount("thead") + RowCount("tbody") + RowCount("tfoot") > 0)
        => /\ err = ""
           /\ Kinds(TableLines) =
                <<"rule">>
                  \o ExpectedGroup(RowCount("thead"), TRUE)
                  \o ExpectedGroup(RowCount("tbody"), RowCount("thead") = 0)
                  \o ExpectedGroup(RowCount("tfoot"), RowCount("thead") + RowCount("tbody") = 0)

\* a table with a head and a body has been converted
C9_Witness ==
    /\ TableConverted
    /\ pc = "joined"
    /\ RowCount("thead") > 0
    /\ RowCount("tbody") > 0
    /\ Len(SelectKinds(lines, {"align"})) = 1

(***************************************************************************)
(* Sections and the reference table.                                       *)
(***************************************************************************)
FirstInMiddle == root.children[2].children[1]

\* the number of xref nodes in the tree whose target is a
XrefCount(a) == Len(SelectSeq(FindAll(root, "xref"), LAMBDA x : Get(x.attrib, "target", <<>>) = a))

\* the output from the first heading on
RECURSIVE FromFirstHeading(_)
FromFirstHeading(ls) ==
    IF ls = <<>> THEN <<>>
    ELSE IF Head(ls).kind = "heading" THEN ls ELSE FromFirstHeading(Tail(ls))

\* C2: a section with a title whose anchor A is non-empty and is the target
\* of at least one xref gets, directly after its heading, the property block
\* :PROPERTIES: / :CUSTOM_ID: A / :END:; with no xref to A, or no anchor, the
\* heading is followed by no property block and the conversion does not fail.
\* Stated of the first child of middle, whose heading is the first heading of
\* the output when front is empty.
C2_SectionCustomId ==
    (/\ Part(2, "middle") /\ Done(2)
     /\ root.children[1].children = <<>>
     /\ root.children[2].children # <<>>
     /\ FirstInMiddle.tag = "section"
     /\ strip(Get(FirstInMiddle.attrib, "title", <<>>)) # <<>>)
        => LET A == Get(FirstInMiddle.attrib, "anchor", <<>>)
               H == FromFirstHeading(lines)
           IN /\ Len(H) >= 2
              /\ IF A # <<>> /\ XrefCount(A) > 0
                 THEN /\ Len(H) >= 4
                      /\ Kinds(SubSeq(H, 2, 4)) = <<"PROPERTIES", "CUSTOM_ID", "END">>
                      /\ H[3].text = <<":CUSTOM_ID: ">> \o A \o <<"\n">>
                 ELSE H[2].kind = "blank"

\* C8: running gather_section_refs a second time on the tree it has just
\* been run on leaves the reference table as the first run left it.  Stated
\* of the runs that follow conversions that returned normally.
C8_GatherIdempotent ==
    (pc = "attr" /\ ~failed) => gather_section_refs(root, sec_refs) = sec_refs

\* C10: when a conversion starts, the author-emitted flag is false, the
\* keyword set is empty and the reference table holds no anchor.  Stated of
\* the conversions that follow conversions that returned normally.
C10_FreshGlobals ==
    (pc = "gather" /\ ~failed) => ~did_author /\ keywords = {} /\ DOMAIN sec_refs = {}

(***************************************************************************)
(* Reference entries.                                                      *)
(***************************************************************************)
TheReferences == SelectTag(root.children[3].children[1].children, "reference")

HasTitle(ref) == Has(ref, "front") /\ Has(Find(ref, "front"), "title")

HasOrg(ref) ==
    /\ Has(ref, "front")
    /\ Has(Find(ref, "front"), "author")
    /\ Has(Find(Find(ref, "front"), "author"), "organization")

\* C4: when every reference entry has an anchor, no entry fails for want of
\* a title, an author or an organization in its front child: each entry is
\* emitted as heading, :PROPERTIES: and :END:, with a :REF_TITLE: line exactly
\* when it has a title and a :REF_ORG: line exactly when its first author has
\* an organization.
C4_MissingFrontOmitted ==
    (/\ Part(3, "back") /\ Done(3)
     /\ root.children[3].children # <<>>
     /\ root.children[3].children[1].tag = "references"
     /\ \A i \in DOMAIN TheReferences : "anchor" \in DOMAIN TheReferences[i].attrib)
        => /\ err = ""
           /\ Len(SelectKinds(lines, {"ref_heading"})) = Len(TheReferences)
           /\ Len(SelectKinds(lines, {"PROPERTIES"})) = Len(TheReferences)
           /\ Len(SelectKinds(lines, {"END"})) = Len(TheReferences)
           /\ Len(SelectKinds(lines, {"REF_TITLE"})) = Len(SelectSeq(TheReferences, HasTitle))
           /\ Len(SelectKinds(lines, {"REF_ORG"})) = Len(SelectSeq(TheReferences, HasOrg))

(***************************************************************************)
(* Front matter.                                                           *)
(***************************************************************************)
TheAuthors == SelectTag(root.children[1].children, "author")
TheKeywords == SelectTag(root.children[1].children, "keyword")

AuthorLines == SelectKinds(lines, {"AUTHOR", "RFC_ADD_AUTHOR"})

\* (name, email, organization) of an author element; the organization is
\* preceded by its abbreviation when it has one
AuthorFields(a) ==
    LET o == IF Has(a, "organization") THEN Find(a, "organization") ELSE EltT("organization", EmptyDict, <<>>, <<>>)
        e == IF Has(a, "address") /\ Has(Find(a, "address"), "email")
             THEN strip(Find(Find(a, "address"), "email").text) ELSE <<>>
        ab == strip(Get(o.attrib, "abbrev", <<>>))
    IN <<Get(a.attrib, "fullname", NoneStr), e>>
         \o (IF ab # <<>> THEN <<ab>> ELSE <<>>) \o <<strip(o.text)>>

\* C5: the first author of the front matter produces the primary-author
\* directive #+AUTHOR with its name, every later author produces one
\* #+RFC_ADD_AUTHOR directive, and the values carried by those directives are
\* the (name, email, organization) of the later authors, in document order.
C5_AuthorOrdering ==
    (Part(1, "front") /\ Done(1))
        => /\ err = ""
           /\ Len(AuthorLines) = Len(TheAuthors)
           /\ \A i \in DOMAIN TheAuthors :
                IF i = 1
                THEN /\ AuthorLines[i].kind = "AUTHOR"
                     /\ AuthorLines[i].text =
                          <<"#+AUTHOR: ">> \o AuthorFields(TheAuthors[i])[1] \o <<"\n">>
                ELSE /\ AuthorLines[i].kind = "RFC_ADD_AUTHOR"
                     /\ Fields(AuthorLines[i].text) = AuthorFields(TheAuthors[i])

KeywordLines == SelectKinds(lines, {"RFC_KEYWORDS"})

KeywordTexts == [i \in DOMAIN TheKeywords |-> strip(TheKeywords[i].text)]

FrontWithKeywords == Part(1, "front") /\ Done(1) /\ err = "" /\ TheKeywords # <<>>

C7_NoPartialOutput ==
    (inMain /\ pc \in {"gather", "attr", "walk", "aborted"}) => stdout = <<>>

\* main's conversion aborted after fragments had been produced
C7_Witness ==
    /\ inMain
    /\ pc = "aborted"
    /\ err = "AssertionError"
    /\ Len(lines) > 1
    /\ stdout = <<>>

====
